---- MODULE Spec2Model ----
(***************************************************************************)
(* Model of main.py: HFTextToImageApp, a Tkinter front end that posts a    *)
(* prompt to the Hugging Face inference API on a worker thread, interprets *)
(* the polymorphic response, and stores / displays / saves the image.      *)
(***************************************************************************)
EXTENDS Integers, Sequences, FiniteSets, TLC

\* ---------------------------------------------------------------- bounds
MaxThreads == 2     \* generate_image worker threads started in one run
MaxWidth == 2       \* members of an inner JSON container in SpecSearch

\* ------------------------------------------------------ program constants
max_w == 768
max_h == 512
B64Sample == 200
HTTP_OK == 200

\* ------------------------------------------------------------ Python data
None == [t |-> "None"]

\* A str is kept run-length encoded: a sequence of runs of one character
\* class.  "alnum" is c.isalnum(), "sym" is one of + / =, "nl" is \n or \r,
\* "space" is a blank and "other" is any other character.  id names the
\* text, dec says what base64.b64decode and Image.open make of it.
Run(c, n) == [c |-> c, n |-> n]

RECURSIVE StrLen(_)
StrLen(runs) == IF runs = <<>> THEN 0 ELSE Head(runs).n + StrLen(Tail(runs))

\* all(c.isalnum() or c in "+/=\n\r" for c in obj[:200])
RECURSIVE PrefixAllB64(_, _)
PrefixAllB64(runs, k) ==
    IF k <= 0 \/ runs = <<>> THEN TRUE
    ELSE /\ Head(runs).n = 0 \/ Head(runs).c \in {"alnum", "sym", "nl"}
         /\ PrefixAllB64(Tail(runs), k - Head(runs).n)

PyStr(id, runs, dec, w, h) ==
    [t |-> "str", id |-> id, runs |-> runs, dec |-> dec, w |-> w, h |-> h]

\* len(obj) > 200 and all(... for c in obj[:200])
IsB64Like(s) == StrLen(s.runs) > B64Sample /\ PrefixAllB64(s.runs, B64Sample)

JNum(n) == [t |-> "num", v |-> n]
JList(vals) == [t |-> "list", vals |-> vals]
JDict(keys, vals) == [t |-> "dict", keys |-> keys, vals |-> vals]

\* Python truthiness of a parsed JSON value
Truthy(v) ==
    CASE v.t = "None" -> FALSE
      [] v.t = "num"  -> v.v # 0
      [] v.t = "str"  -> StrLen(v.runs) > 0
      [] v.t = "list" -> Len(v.vals) > 0
      [] v.t = "dict" -> Len(v.vals) > 0
      [] OTHER        -> TRUE

\* dict.get(key): the value under key, None when the key is absent
DictGet(d, key) ==
    IF \E i \in 1..Len(d.keys) : d.keys[i] = key
    THEN d.vals[CHOOSE i \in 1..Len(d.keys) : d.keys[i] = key]
    ELSE None

\* ------------------------------------------------------ search_for_base64
\* found is the nonlocal found_b64; the result is its value after the call.
\* variant without the early return of lines 164-165: the last match wins
RECURSIVE search_for_base64_nogard(_, _)
search_for_base64_nogard(obj, found) ==
    CASE obj.t = "str" -> IF IsB64Like(obj) THEN obj ELSE found
      [] obj.t \in {"dict", "list"} ->
            IF obj.vals = <<>> THEN found
            ELSE search_for_base64_nogard(
                    [obj EXCEPT !.vals = Tail(obj.vals)],
                    search_for_base64_nogard(Head(obj.vals), found))
      [] OTHER -> found

RECURSIVE search_for_base64(_, _)
search_for_base64(obj, found) ==
    IF Truthy(found) THEN found
    ELSE CASE obj.t = "str" -> IF IsB64Like(obj) THEN obj ELSE found
           [] obj.t \in {"dict", "list"} ->
                 IF obj.vals = <<>> THEN found
                 ELSE search_for_base64(
                         [obj EXCEPT !.vals = Tail(obj.vals)],
                         search_for_base64(Head(obj.vals), found))
           [] OTHER -> found

\* ------------------------------------------------------------ HTTP response
\* A header value and the widget texts are sequences of one-character strings.
ImagePrefix == <<"i", "m", "a", "g", "e", "/">>

\* str.startswith
StartsWith(s, p) == Len(s) >= Len(p) /\ SubSeq(s, 1, Len(p)) = p

\* resp.json() raising (the body is not JSON)
JRaise == [t |-> "raise"]

\* A byte string: id names the content, json is what json.loads makes of it
\* (JRaise when it raises; JSON null loads as None), dec/w/h what Image.open
\* makes of it ("img" with its size, or "junk" when it cannot be identified).
Bytes(id, json, dec, w, h) ==
    [t |-> "bytes", id |-> id, json |-> json, dec |-> dec, w |-> w, h |-> h]

Response(status, ctype, body) == [status |-> status, ctype |-> ctype, body |-> body]

\* Parts of an exception message (an f-string): literal text and the values
\* interpolated into it.
Lit(s) == [k |-> "lit", s |-> s]
Val(v) == [k |-> "val", v |-> v]
Ctype(c) == [k |-> "ctype", c |-> c]
Status(n) == [k |-> "status", n |-> n]

NoErr == <<>>
Ok(b) == [ok |-> TRUE, image_bytes |-> b, err |-> NoErr]
Raise(msg) == [ok |-> FALSE, image_bytes |-> None, err |-> msg]

\* base64.b64decode(found_b64): the decoded bytes, or binascii.Error
b64decode(s) ==
    IF s.dec = "badpad" THEN Raise(<<Lit("Incorrect padding")>>)
    ELSE Ok(Bytes(s.id, JRaise, s.dec, s.w, s.h))

\* lines 145-146
IsImageResponse(resp) ==
    resp.status = HTTP_OK /\ StartsWith(resp.ctype, ImagePrefix)

\* lines 150-153: j = resp.json(), or None when it raises
ParsedJson(resp) == IF resp.body.json = JRaise THEN None ELSE resp.body.json

\* variant without the "error" check of lines 155-156
InterpretJsonNoErrorCheck(resp) ==
    LET j == ParsedJson(resp)
        found_b64 == search_for_base64(j, None)
    IN  IF j # None
        THEN IF Truthy(found_b64)
             THEN b64decode(found_b64)
             ELSE Raise(<<Lit("Unexpected API response (status "),
                          Status(resp.status), Lit("): "), Val(j)>>)
        ELSE Raise(<<Lit("Unexpected API response (status "),
                     Status(resp.status),
                     Lit(") and not JSON. Content-type: "),
                     Ctype(resp.ctype)>>)

\* lines 149-183, the branch taken when the response is no image
InterpretJson(resp) ==
    LET j == ParsedJson(resp)
        e == IF j.t = "dict" THEN DictGet(j, "error") ELSE None
        found_b64 == search_for_base64(j, None)
    IN  IF j.t = "dict" /\ Truthy(e)
        THEN Raise(<<Lit("Hugging Face API error: "), Val(e)>>)
        ELSE IF j # None
             THEN IF Truthy(found_b64)
                  THEN b64decode(found_b64)
                  ELSE Raise(<<Lit("Unexpected API response (status "),
                               Status(resp.status), Lit("): "), Val(j)>>)
             ELSE Raise(<<Lit("Unexpected API response (status "),
                          Status(resp.status),
                          Lit(") and not JSON. Content-type: "),
                          Ctype(resp.ctype)>>)

\* variant that tries the JSON body before looking at the content type
InterpretJsonFirst(resp) ==
    IF resp.body.json # JRaise THEN InterpretJson(resp)
    ELSE IF IsImageResponse(resp) THEN Ok(resp.body) ELSE InterpretJson(resp)

\* lines 144-183: the image bytes of a response, or the exception raised
Interpret(resp) ==
    IF IsImageResponse(resp) THEN Ok(resp.body) ELSE InterpretJson(resp)

\* line 186: Image.open(io.BytesIO(image_bytes)).convert("RGBA")
ImageOpen(b) ==
    IF b.dec = "img" THEN [ok |-> TRUE, w |-> b.w, h |-> b.h, err |-> NoErr]
    ELSE [ok |-> FALSE, w |-> 0, h |-> 0,
          err |-> <<Lit("cannot identify image file")>>]

\* --------------------------------------------------------- display_image
\* scale = min(max_w / w, max_h / h, 1.0) as the fraction num / den
ScaleNum(w, h) ==
    IF w <= max_w /\ h <= max_h THEN 1
    ELSE IF max_w * h <= max_h * w THEN max_w ELSE max_h
ScaleDen(w, h) ==
    IF w <= max_w /\ h <= max_h THEN 1
    ELSE IF max_w * h <= max_h * w THEN w ELSE h

RECURSIVE GCD(_, _)
GCD(a, b) == IF b = 0 THEN a ELSE GCD(b, a % b)
RECURSIVE IsPowerOfTwo(_)
IsPowerOfTwo(n) == n = 1 \/ (n > 1 /\ n % 2 = 0 /\ IsPowerOfTwo(n \div 2))

\* the double num / den is the exact quotient (a dyadic fraction)
ExactScale(num, den) == IsPowerOfTwo(den \div GCD(num, den))

\* int(v * scale).  scale is a double: unless it is exact, a product whose
\* true value is a whole number k can round to k or to just below k, so
\* int() gives k or k - 1; IEEE-754 rounding of the division and of the
\* multiplication decides which.
ScaledInt(v, num, den) ==
    IF (v * num) % den = 0 /\ ~ExactScale(num, den)
    THEN {(v * num) \div den, (v * num) \div den - 1}
    ELSE {(v * num) \div den}

\* lines 196-200: the sizes (new_w, new_h) display_image can compute
NewSizes(w, h) ==
    {<<nw, nh>> : nw \in ScaledInt(w, ScaleNum(w, h), ScaleDen(w, h)),
                  nh \in ScaledInt(h, ScaleNum(w, h), ScaleDen(w, h))}

\* line 201: Image.resize raises ValueError unless both sides are positive
ResizeOk(size) == size[1] >= 1 /\ size[2] >= 1

\* ------------------------------------------------------------ input values
SMsg == PyStr("Model is loading", <<Run("alnum", 5), Run("space", 1), Run("alnum", 2),
                                    Run("space", 1), Run("alnum", 7)>>, "junk", 0, 0)
SEmpty == PyStr("", <<>>, "junk", 0, 0)
SQ1 == PyStr("q1", <<Run("alnum", 300)>>, "img", 512, 512)
SQ2 == PyStr("q2", <<Run("alnum", 150), Run("sym", 30), Run("nl", 21),
                     Run("other", 4)>>, "img", 256, 256)
SBad == PyStr("bad", <<Run("alnum", 199), Run("space", 1), Run("alnum", 100)>>,
              "junk", 0, 0)
S200 == PyStr("s200", <<Run("alnum", 200)>>, "img", 64, 64)
SJunk == PyStr("longid", <<Run("alnum", 256)>>, "junk", 0, 0)
SPad == PyStr("badpad", <<Run("alnum", 201)>>, "badpad", 0, 0)

CoreJson ==
    { None, JNum(0), JNum(7), SMsg, SQ1, JList(<<>>), JDict(<<>>, <<>>),
      JDict(<<"error">>, <<SMsg>>),
      JDict(<<"error">>, <<SEmpty>>),
      JDict(<<"error">>, <<None>>),
      JDict(<<"error">>, <<SQ1>>),
      JDict(<<"error", "data">>, <<SEmpty, SQ1>>),
      JDict(<<"estimated_time", "error">>, <<JNum(20), SMsg>>),
      JList(<<JDict(<<"generated_image">>, <<SQ1>>)>>),
      JList(<<JDict(<<"error">>, <<SMsg>>)>>),
      JDict(<<"a", "b">>, <<SBad, SQ2>>),
      JList(<<S200, SJunk>>),
      JList(<<SPad>>) }

ImageWidths == {1, 2, 768, 769, 1024, 1536, 1537, 3000}
ImageHeights == {1, 2, 512, 513, 561, 1024}

CoreBodies ==
    {Bytes("image", JRaise, "img", w, h) : w \in ImageWidths, h \in ImageHeights}
    \cup {Bytes("html", JRaise, "junk", 0, 0)}
    \cup {Bytes("json", j, "junk", 0, 0) : j \in CoreJson}

CtImagePng == <<"i", "m", "a", "g", "e", "/", "p", "n", "g">>
CtJson == <<"a", "p", "p", "l", "i", "c", "a", "t", "i", "o", "n", "/",
            "j", "s", "o", "n">>
Ctypes == {CtImagePng, ImagePrefix, <<"i", "m", "a", "g", "e">>, CtJson, <<>>}
Statuses == {HTTP_OK, 404, 503}

\* responses of a single generate_image run
AllResponses ==
    {Response(st, ct, b) : st \in Statuses, ct \in Ctypes, b \in CoreBodies}

\* responses of the concurrent runs: an image and an API error
FewResponses ==
    { Response(HTTP_OK, CtImagePng, Bytes("image", JRaise, "img", 640, 480)),
      Response(503, CtJson, Bytes("json", JDict(<<"error">>, <<SMsg>>), "junk", 0, 0)) }

\* JSON structures searched in SpecSearch: leaves, containers of leaves, one
\* more level of nesting, and pairs of those
Leaves == {SQ1, SQ2, SBad}

RECURSIVE Tuples(_, _)
Tuples(S, n) ==
    IF n = 0 THEN {<<>>}
    ELSE {<<x>> \o t : x \in S, t \in Tuples(S, n - 1)}

Key(i) == <<"k1", "k2", "k3", "k4">>[i]
Keys(n) == [i \in 1..n |-> Key(i)]

Containers(S, n) ==
    UNION {{JList(v) : v \in Tuples(S, m)} \cup {JDict(Keys(m), v) : v \in Tuples(S, m)}
           : m \in 1..n}

Level1(n) == Leaves \cup Containers(Leaves, n)
Level2(n) == Level1(n) \cup {JList(<<x>>) : x \in Containers(Leaves, n)}
SearchInputs(n) ==
    Level2(n) \cup {JList(<<x, y>>) : x \in Level2(n), y \in Level2(n)}
              \cup {JDict(<<"images", "meta">>, <<x, y>>) : x \in Level2(n), y \in Level2(n)}

\* text widgets
Prompts == {<<" ", "\n">>, <<" ", "a", "\n">>}
TokenTexts == {<<>>, <<" ">>, <<"t">>}
EnvTokens == {None, [t |-> "env", s |-> <<>>], [t |-> "env", s |-> <<"t">>]}

\* str.strip(): drop leading and trailing whitespace
IsSpace(c) == c \in {" ", "\n", "\t", "\r"}
RECURSIVE LStrip(_)
LStrip(s) == IF s # <<>> /\ IsSpace(Head(s)) THEN LStrip(Tail(s)) ELSE s
RECURSIVE RStrip(_)
RStrip(s) ==
    IF s # <<>> /\ IsSpace(s[Len(s)]) THEN RStrip(SubSeq(s, 1, Len(s) - 1)) ELSE s
Strip(s) == RStrip(LStrip(s))

\* ------------------------------------------------------------------ state
VARIABLES
    thr,              \* worker threads: position in generate_image and locals
    nthreads,         \* threads started by on_generate_clicked so far
    generated_image,  \* self.generated_image
    photo_image,      \* self.photo_image
    canvas,           \* the image item on self.canvas
    status_var,       \* self.status_var
    file,             \* contents of hf_generated_image.png
    netcalls,         \* requests.post calls issued
    finished,         \* the thread whose generate_image returned last (0: none)
    shown,            \* the thread whose display_image returned last (0: none)
    afterClear        \* history: what happened since the last clear_image

vars == <<thr, nthreads, generated_image, photo_image, canvas, status_var,
          file, netcalls, finished, shown, afterClear>>

Threads == 1..MaxThreads

St(text, err) == [text |-> text, err |-> err]
Img(src, w, h) == [t |-> "img", src |-> src, w |-> w, h |-> h]
Photo(src, size) == [t |-> "photo", src |-> src, w |-> size[1], h |-> size[2]]

IdleThread ==
    [pc |-> "idle", resp |-> None, image_bytes |-> None, img |-> None, err |-> NoErr]

\* __init__, lines 24-32
Init ==
    /\ thr = [t \in Threads |-> IdleThread]
    /\ nthreads = 0
    /\ generated_image = None
    /\ photo_image = None
    /\ canvas = None
    /\ status_var = St("Ready", NoErr)
    /\ file = None
    /\ netcalls = 0
    /\ finished = 0
    /\ shown = 0
    /\ afterClear = "no"

\* The state right after on_generate_clicked started the first worker.
InitGen ==
    /\ thr = [t \in Threads |-> IF t = 1 THEN [IdleThread EXCEPT !.pc = "l118"]
                                ELSE IdleThread]
    /\ nthreads = 1
    /\ generated_image = None
    /\ photo_image = None
    /\ canvas = None
    /\ status_var = St("Ready", NoErr)
    /\ file = None
    /\ netcalls = 0
    /\ finished = 0
    /\ shown = 0
    /\ afterClear = "no"

\* ------------------------------------------------------ on_generate_clicked
\* variant of line 97 without the strip()
PromptMissingNoStrip(prompt) == prompt = <<>>
\* lines 96-97: not prompt
PromptMissing(prompt) == Strip(prompt) = <<>>

\* line 101: self.api_token_var.get().strip() or os.getenv("HF_API_TOKEN")
TokenOf(field, env) ==
    IF Strip(field) # <<>> THEN [t |-> "env", s |-> Strip(field)] ELSE env
\* line 102: not token
TokenMissing(field, env) ==
    IF TokenOf(field, env) = None THEN TRUE ELSE TokenOf(field, env).s = <<>>

\* lines 95-114 with the widget texts and the environment as read; the
\* width, height and steps fields (lines 108-110) hold integers
Click(prompt, field, env_token) ==
    /\ afterClear' = "no"
    /\ \/ /\ PromptMissing(prompt)
          \* line 98: messagebox.showwarning("Prompt missing", ...)
          /\ UNCHANGED <<thr, nthreads>>
       \/ /\ ~PromptMissing(prompt)
          /\ TokenMissing(field, env_token)
          \* line 103: messagebox.showwarning("API token missing", ...)
          /\ UNCHANGED <<thr, nthreads>>
       \/ /\ ~PromptMissing(prompt)
          /\ ~TokenMissing(field, env_token)
          /\ nthreads < MaxThreads
          /\ nthreads' = nthreads + 1
          /\ thr' = [thr EXCEPT ![nthreads + 1].pc = "l118"]
    /\ UNCHANGED <<generated_image, photo_image, canvas, status_var, file,
                   netcalls, finished, shown>>

on_generate_clicked ==
    \E prompt \in Prompts, field \in TokenTexts, env_token \in EnvTokens :
        Click(prompt, field, env_token)

\* ----------------------------------------------------------- generate_image
\* lines 118-141: the two status updates before the request
SetStatusSending(t) ==
    /\ thr[t].pc = "l118"
    /\ status_var' =
          St("Contacting Hugging Face inference API (this may take a while)...", NoErr)
    /\ thr' = [thr EXCEPT ![t].pc = "l142"]
    /\ UNCHANGED <<nthreads, generated_image, photo_image, canvas, file,
                   netcalls, finished, shown, afterClear>>

\* lines 142-186 with the response resp: the locals of the thread afterwards
AfterResponse(th, t, resp) ==
    LET r == Interpret(resp)
        i == ImageOpen(r.image_bytes)
    IN  IF ~r.ok
        THEN [th EXCEPT !.pc = "l191", !.resp = resp, !.err = r.err]
        ELSE IF ~i.ok
             THEN [th EXCEPT !.pc = "l191", !.resp = resp,
                             !.image_bytes = r.image_bytes, !.err = i.err]
             ELSE [th EXCEPT !.pc = "l187", !.resp = resp,
                             !.image_bytes = r.image_bytes, !.img = Img(t, i.w, i.h)]

\* lines 142-186: the response arrives and is interpreted and decoded, or
\* requests.post raises
Post(t, responses) ==
    /\ thr[t].pc = "l142"
    /\ netcalls' = netcalls + 1
    /\ \/ \E resp \in responses :
             thr' = [thr EXCEPT ![t] = AfterResponse(thr[t], t, resp)]
       \/ thr' = [thr EXCEPT ![t].pc = "l191",
                             ![t].err = <<Lit("HTTPSConnectionPool: Read timed out.")>>]
    /\ UNCHANGED <<nthreads, generated_image, photo_image, canvas, status_var,
                   file, finished, shown, afterClear>>

\* line 187
StoreImage(t) ==
    /\ thr[t].pc = "l187"
    /\ generated_image' = thr[t].img
    /\ afterClear' = IF afterClear = "clean" THEN "stored" ELSE afterClear
    /\ thr' = [thr EXCEPT ![t].pc = "l196"]
    /\ UNCHANGED <<nthreads, photo_image, canvas, status_var, file,
                   netcalls, finished, shown>>

\* lines 196-204 of display_image
CreatePhoto(t) ==
    /\ thr[t].pc = "l196"
    /\ \E size \in NewSizes(thr[t].img.w, thr[t].img.h) :
          IF ResizeOk(size)
          THEN /\ photo_image' = Photo(t, size)
               /\ thr' = [thr EXCEPT ![t].pc = "l205"]
          ELSE /\ thr' = [thr EXCEPT ![t].pc = "l191",
                              ![t].err = <<Lit("height and width must be > 0")>>]
               /\ UNCHANGED photo_image
    /\ UNCHANGED <<nthreads, generated_image, canvas, status_var, file,
                   netcalls, finished, shown, afterClear>>

\* line 205
CanvasDelete(t) ==
    /\ thr[t].pc = "l205"
    /\ canvas' = None
    /\ thr' = [thr EXCEPT ![t].pc = "l206"]
    /\ UNCHANGED <<nthreads, generated_image, photo_image, status_var, file,
                   netcalls, finished, shown, afterClear>>

\* line 206: the item shows whatever self.photo_image holds now
CanvasCreate(t) ==
    /\ thr[t].pc = "l206"
    /\ canvas' = photo_image
    /\ shown' = t
    /\ thr' = [thr EXCEPT ![t].pc = "l189"]
    /\ UNCHANGED <<nthreads, generated_image, photo_image, status_var, file,
                   netcalls, finished, afterClear>>

\* line 189, and generate_image returns; its locals are gone
SetStatusSuccess(t) ==
    /\ thr[t].pc = "l189"
    /\ status_var' = St("Image generated successfully.", NoErr)
    /\ thr' = [thr EXCEPT ![t] = [IdleThread EXCEPT !.pc = "returned"]]
    /\ finished' = t
    /\ UNCHANGED <<nthreads, generated_image, photo_image, canvas, file,
                   netcalls, shown, afterClear>>

\* lines 190-192 (status line and error dialog), and generate_image returns
Except(t) ==
    /\ thr[t].pc = "l191"
    /\ status_var' = St("Error: ", thr[t].err)
    /\ thr' = [thr EXCEPT ![t] = [IdleThread EXCEPT !.pc = "failed"]]
    /\ finished' = t
    /\ UNCHANGED <<nthreads, generated_image, photo_image, canvas, file,
                   netcalls, shown, afterClear>>

\* ------------------------------------------------------------- clear_image
\* variant of clear_image without line 210
clear_image_keep ==
    /\ canvas' = None
    /\ photo_image' = None
    /\ status_var' = St("Cleared image.", NoErr)
    /\ afterClear' = "clean"
    /\ UNCHANGED <<thr, nthreads, generated_image, file,
                   netcalls, finished, shown>>

\* lines 208-212
clear_image ==
    /\ canvas' = None
    /\ generated_image' = None
    /\ photo_image' = None
    /\ status_var' = St("Cleared image.", NoErr)
    /\ afterClear' = "clean"
    /\ UNCHANGED <<thr, nthreads, file, netcalls, finished, shown>>

\* -------------------------------------------------------------- save_image
\* lines 214-224
save_image ==
    /\ \/ /\ generated_image = None
          \* line 216: messagebox.showinfo("No image", ...)
          /\ UNCHANGED file
       \/ /\ generated_image # None
          /\ file' = generated_image
          \* line 222: messagebox.showinfo("Saved", ...)
       \/ /\ generated_image # None
          \* lines 223-224: save raised, messagebox.showerror("Save error", ...)
          /\ UNCHANGED file
    /\ UNCHANGED <<thr, nthreads, generated_image, photo_image, canvas, status_var,
                   netcalls, finished, shown, afterClear>>

\* ----------------------------------------------------------- specifications
WorkerStep(t, responses) ==
    \/ SetStatusSending(t)
    \/ Post(t, responses)
    \/ StoreImage(t)
    \/ CreatePhoto(t)
    \/ CanvasDelete(t)
    \/ CanvasCreate(t)
    \/ SetStatusSuccess(t)
    \/ Except(t)

UIStep == on_generate_clicked \/ clear_image \/ save_image

\* the application: the Tk main loop and the worker threads
Next == UIStep \/ \E t \in Threads : WorkerStep(t, FewResponses)
Spec == Init /\ [][Next]_vars

\* one generate_image call run alone, over every response shape
NextGen == \E t \in Threads : WorkerStep(t, AllResponses)
SpecGen == InitGen /\ [][NextGen]_vars

\* one generate_image call run alone, over nested JSON bodies
SearchResponses(n) ==
    {Response(503, CtJson, Bytes("json", j, "junk", 0, 0)) : j \in SearchInputs(n)}
NextSearch == \E t \in Threads : WorkerStep(t, SearchResponses(MaxWidth))
SpecSearch == InitGen /\ [][NextSearch]_vars

\* ------------------------------------------------------------------ claims
\* a worker that holds a response (between line 142 and its return)
HasResponse(t) == thr[t].resp # None
OnImagePath(resp) ==
    resp.status = 200 /\ StartsWith(resp.ctype, <<"i", "m", "a", "g", "e", "/">>)
Mentions(err, part) == \E i \in 1..Len(err) : err[i] = part

\* C1: with status 200 and a content type starting with "image/", the bytes
\* handed to Image.open are exactly the response body, whatever the body is.
C1_ImageBodyIsDecoded ==
    \A t \in Threads :
        (HasResponse(t) /\ OnImagePath(thr[t].resp))
            => thr[t].image_bytes = thr[t].resp.body

\* an image response whose body is the JSON text {"error": ...} went to the
\* decoder as it was, and the decoder refused it
C1_Witness ==
    \E t \in Threads :
        /\ thr[t].pc = "l191"
        /\ HasResponse(t)
        /\ OnImagePath(thr[t].resp)
        /\ thr[t].resp.body.json = JDict(<<"error">>, <<SMsg>>)
        /\ thr[t].image_bytes = thr[t].resp.body

\* the body is the JSON object {"error": x} with x a non-empty string
IsErrorBody(resp) ==
    /\ resp.body.json.t = "dict"
    /\ resp.body.json.keys = <<"error">>
    /\ resp.body.json.vals[1].t = "str"
    /\ StrLen(resp.body.json.vals[1].runs) > 0
ErrorText(resp) == resp.body.json.vals[1]

FailsWithErrorText(t) ==
    /\ thr[t].pc = "l191"
    /\ Mentions(thr[t].err, Val(ErrorText(thr[t].resp)))
    /\ generated_image = None /\ photo_image = None /\ canvas = None

\* C2 as stated: a body {"error": x} ends in a failure containing x for every
\* status code and every content type, and no image is stored or displayed.
C2_ErrorBodyAlwaysFails ==
    \A t \in Threads :
        (HasResponse(t) /\ IsErrorBody(thr[t].resp)) => FailsWithErrorText(t)

\* C2 amended: a body {"error": x} ends in a failure containing x for every
\* response that is not taken as an image (status not 200, or content type
\* not starting with "image/"); no image is stored or displayed.
C2_ErrorBodyFailsOffImagePath ==
    \A t \in Threads :
        (HasResponse(t) /\ IsErrorBody(thr[t].resp) /\ ~OnImagePath(thr[t].resp))
            => FailsWithErrorText(t)

\* status 200 with a JSON content type and an error body has failed with x
C2_Witness ==
    \E t \in Threads :
        /\ HasResponse(t)
        /\ thr[t].resp.status = 200
        /\ thr[t].resp.ctype = CtJson
        /\ IsErrorBody(thr[t].resp)
        /\ FailsWithErrorText(t)

\* the str values of a JSON structure in depth-first order: dict values in
\* iteration order, list elements in index order
RECURSIVE StringsOf(_)
StringsOf(obj) ==
    CASE obj.t = "str" -> <<obj>>
      [] obj.t \in {"dict", "list"} ->
            IF obj.vals = <<>> THEN <<>>
            ELSE StringsOf(Head(obj.vals))
                 \o StringsOf([obj EXCEPT !.vals = Tail(obj.vals)])
      [] OTHER -> <<>>
Qualifying(seq) == {i \in 1..Len(seq) : IsB64Like(seq[i])}
FirstQualifying(seq) ==
    seq[CHOOSE i \in Qualifying(seq) : \A k \in Qualifying(seq) : i <= k]
LastQualifying(seq) ==
    seq[CHOOSE i \in Qualifying(seq) : \A k \in Qualifying(seq) : i >= k]

\* C3: when the JSON body holds two or more strings that satisfy the base64
\* heuristic, the one reached first in depth-first order is selected and
\* decoded; no later one replaces it.
C3_FirstMatchWins ==
    \A t \in Threads :
        (HasResponse(t) /\ ~OnImagePath(thr[t].resp)
         /\ thr[t].resp.body.json # JRaise
         /\ Cardinality(Qualifying(StringsOf(thr[t].resp.body.json))) >= 2)
            => LET first == FirstQualifying(StringsOf(thr[t].resp.body.json)) IN
               /\ search_for_base64(thr[t].resp.body.json, None) = first
               /\ thr[t].pc # "l191"
               /\ thr[t].image_bytes = b64decode(first).image_bytes

\* a body whose first qualifying string is q2 and whose last is q1: q2 was
\* decoded
C3_Witness ==
    \E t \in Threads :
        /\ thr[t].pc = "l187"
        /\ HasResponse(t)
        /\ thr[t].resp.body.json # JRaise
        /\ Cardinality(Qualifying(StringsOf(thr[t].resp.body.json))) >= 2
        /\ FirstQualifying(StringsOf(thr[t].resp.body.json)) = SQ2
        /\ LastQualifying(StringsOf(thr[t].resp.body.json)) = SQ1
        /\ thr[t].image_bytes.id = "q2"

\* C4 as stated: off the image path, a body that is not JSON fails with a
\* message that mentions the content type, and a body that is JSON (null
\* and scalars included) is never reported as "not JSON".
C4_NotJsonIffParseFails ==
    \A t \in Threads :
        (HasResponse(t) /\ ~OnImagePath(thr[t].resp)) =>
            IF thr[t].resp.body.json = JRaise
            THEN /\ thr[t].pc = "l191"
                 /\ Mentions(thr[t].err, Ctype(thr[t].resp.ctype))
            ELSE ~Mentions(thr[t].err, Lit(") and not JSON. Content-type: "))

\* C6 as stated: for an image of w x h with w, h >= 1 every size
\* display_image can compute fits 768 x 512, is no larger than the original,
\* has both sides at least 1, and is within one pixel of w * scale, h * scale
\* for scale = min(768 / w, 512 / h, 1).
C6_TargetSizeInBox ==
    \A t \in Threads :
        (thr[t].pc = "l196" /\ thr[t].img.w >= 1 /\ thr[t].img.h >= 1) =>
            LET w == thr[t].img.w
                h == thr[t].img.h
                num == IF w <= 768 /\ h <= 512 THEN 1
                       ELSE IF 768 * h <= 512 * w THEN 768 ELSE 512
                den == IF w <= 768 /\ h <= 512 THEN 1
                       ELSE IF 768 * h <= 512 * w THEN w ELSE h
            IN  \A size \in NewSizes(w, h) :
                    /\ size[1] <= 768 /\ size[2] <= 512
                    /\ size[1] <= w /\ size[2] <= h
                    /\ size[1] >= 1 /\ size[2] >= 1
                    /\ w * num - den <= size[1] * den /\ size[1] * den <= w * num + den
                    /\ h * num - den <= size[2] * den /\ size[2] * den <= h * num + den

\* the prompt is empty once stripped, or neither the token field nor
\* HF_API_TOKEN holds a token
EmptyPrompt(prompt) == \A i \in 1..Len(prompt) : prompt[i] \in {" ", "\n", "\t", "\r"}
NoToken(field, env) ==
    /\ \A i \in 1..Len(field) : field[i] \in {" ", "\n", "\t", "\r"}
    /\ IF env = None THEN TRUE ELSE env.s = <<>>

\* C5: on_generate_clicked with an empty prompt or with no token starts no
\* worker thread, issues no network call, and leaves the stored image, the
\* displayed image and the status line unchanged.
C5_InvalidClickDoesNothing ==
    [][\/ UNCHANGED <<thr, nthreads, netcalls, generated_image, photo_image,
                      canvas, status_var>>
       \/ \A prompt \in Prompts, field \in TokenTexts, env \in EnvTokens :
             (EmptyPrompt(prompt) \/ NoToken(field, env)) => ~Click(prompt, field, env)]_vars

\* a generate click after a clear that started nothing: the status line
\* still reads "Cleared image."
C5_Witness ==
    /\ afterClear = "no"
    /\ status_var = St("Cleared image.", NoErr)
    /\ nthreads = 0
    /\ netcalls = 0

\* C7 as stated: after clear_image, the next save_image with no generate
\* click in between reports "no image" and writes no file, also when a
\* request started before the clear is still in flight.
C7_SaveAfterClearNoImage ==
    [][(afterClear \in {"clean", "stored"} /\ save_image)
          => (generated_image = None /\ file' = file)]_vars

\* C7 amended: after clear_image, the next save_image reports "no image" and
\* writes no file, provided that since the clear there was no generate click
\* and no worker has executed line 187; a request in flight at the clear may
\* still store its image, and save_image then writes it.
C7_SaveAfterClearNoStore ==
    [][(afterClear = "clean" /\ save_image)
          => (generated_image = None /\ file' = file)]_vars

\* an image was saved, then cleared, while another request is in flight
C7_Witness ==
    /\ afterClear = "clean"
    /\ file # None
    /\ generated_image = None
    /\ \E t \in Threads : thr[t].pc \in {"l142", "l187"}

\* the two slots hold nothing, or images from the same response
SameResponse(a, b) == IF a = None \/ b = None THEN a = b ELSE a.src = b.src
BetweenStoreAndDisplay(t) == thr[t].pc \in {"l196", "l205", "l206"}

\* C8 as stated: the image save_image writes (generated_image) and the image
\* shown (photo_image) come from the same response in every state; stated
\* here for the states in which no worker is between its two writes.
C8_StoredIsDisplayed ==
    (\A t \in Threads : ~BetweenStoreAndDisplay(t))
        => SameResponse(generated_image, photo_image)

\* what the canvas shows: its image item, unless the PhotoImage behind it
\* has been dropped from self.photo_image
Displayed == IF canvas = photo_image THEN canvas ELSE None

\* C9 as stated: once two requests have both returned successfully, the
\* displayed image is that of the last worker to finish; read here as
\* generously as it can be: the worker whose display_image returned last, or
\* the worker that returned from generate_image last.
C9_LastToFinishWins ==
    (nthreads >= 2 /\ (\A t \in 1..nthreads : thr[t].pc = "returned")
     /\ Displayed # None)
        => Displayed.src \in {shown, finished}

\* C10 as stated: generated_image and photo_image are written only by steps
\* of the UI thread, never by a worker thread itself.
C10_SlotWrittenOnUIThread ==
    [][(generated_image' # generated_image \/ photo_image' # photo_image)
          => UIStep]_vars

====
